---- MODULE Spec2Model ----
(***************************************************************************)
(* Rotary positional embeddings (src/rope.py): reshape_for_broadcast and   *)
(* apply_rotary_emb, modelled over dense row-major tensors.                *)
(*                                                                         *)
(* A tensor is a record [raised, shape, data, dtype]: shape is the         *)
(* sequence of axis sizes, data the elements in row-major (contiguous)     *)
(* order, and raised is "none" for a tensor and the exception's name when  *)
(* the operation that should have produced it raised instead.              *)
(* Floating-point elements are fixed-point integers: the integer n stands  *)
(* for the real number n / SCALE.                                          *)
(***************************************************************************)
EXTENDS Integers, Sequences, FiniteSets, TLC

\* ---------------------------------------------------------------- bounds
MaxB == 2          \* batch sizes 1..MaxB
MaxS == 2          \* sequence lengths 1..MaxS
MaxH == 3          \* head counts 1..MaxH
MaxHd == 4         \* trailing feature widths 1..MaxHd (odd ones included)
MaxRank == 4       \* ranks 0..MaxRank of reshape_for_broadcast's target x
MaxFreqRank == 3   \* ranks 1..MaxFreqRank of its frequency tensor
MaxDim == 2        \* axis sizes 1..MaxDim of both
SCALE == 64        \* fixed-point resolution: n stands for n / SCALE
TrigTerms == 6     \* terms of the sine and cosine series

DefaultTheta == 10000

\* ------------------------------------------------------- tensor library
RECURSIVE Prod(_)
Prod(s) == IF Len(s) = 0 THEN 1 ELSE Head(s) * Prod(Tail(s))

Last(s) == s[Len(s)]
DropLast(s) == SubSeq(s, 1, Len(s) - 1)

Tensor(shape, data, dtype) ==
    [raised |-> "none", shape |-> shape, data |-> data, dtype |-> dtype]

Raised(exc) == [raised |-> exc, shape |-> <<>>, data |-> <<>>, dtype |-> "none"]

Unset == Raised("unset")

numel(t) == Prod(t.shape)

\* number of elements one step along axis i spans, in row-major order
Stride(shape, i) == Prod(SubSeq(shape, i + 1, Len(shape)))

\* 0-based flat offset of the multi-index idx
RECURSIVE Ravel(_, _)
Ravel(idx, shape) ==
    IF Len(idx) = 0 THEN 0
    ELSE Head(idx) * Prod(Tail(shape)) + Ravel(Tail(idx), Tail(shape))

At(t, idx) == t.data[1 + Ravel(idx, t.shape)]

\* torch.arange(n): the integers 0..n-1
arange(n) == Tensor(<<n>>, [k \in 1..n |-> k - 1], "int64")

\* Tensor.float(): dtype float32; an integer k becomes the real k, and a
\* float64 element keeps its value (every multiple of 1/SCALE in the model's
\* range is a float32 value)
Float(t) ==
    IF t.raised # "none" THEN t
    ELSE IF t.dtype = "float32" THEN t
    ELSE IF t.dtype = "int64"
         THEN Tensor(t.shape, [k \in 1..Len(t.data) |-> t.data[k] * SCALE], "float32")
    ELSE Tensor(t.shape, t.data, "float32")

\* Tensor.reshape(shape) of a contiguous tensor; at most one entry is -1
reshape(t, shape) ==
    LET known == Prod(SelectSeq(shape, LAMBDA d : d # -1))
        free == Len(SelectSeq(shape, LAMBDA d : d = -1))
    IN  IF t.raised # "none" THEN t
        ELSE IF free = 0
             THEN IF known = numel(t) THEN Tensor(shape, t.data, t.dtype)
                  ELSE Raised("RuntimeError")
        ELSE IF known = 0 \/ numel(t) % known # 0 THEN Raised("RuntimeError")
        ELSE Tensor([i \in 1..Len(shape) |->
                        IF shape[i] = -1 THEN numel(t) \div known ELSE shape[i]],
                    t.data, t.dtype)

\* Tensor.view(shape) of a contiguous tensor
view(t, shape) ==
    IF t.raised # "none" THEN t
    ELSE IF Prod(shape) # numel(t) THEN Raised("RuntimeError")
    ELSE Tensor(shape, t.data, t.dtype)

\* Tensor.unbind(-1): one tensor per index of the last axis
unbind(t) ==
    LET n == Last(t.shape)
        m == numel(t) \div n
    IN  [j \in 1..n |->
            Tensor(DropLast(t.shape), [k \in 1..m |-> t.data[(k - 1) * n + j]], t.dtype)]

\* Tensor.unsqueeze(-1)
unsqueeze(t) == Tensor(Append(t.shape, 1), t.data, t.dtype)

\* torch.cat((a, b), dim=-1)
cat(a, b) ==
    LET la == Last(a.shape)
        lb == Last(b.shape)
        n == la + lb
        m == numel(a) \div la
    IN  IF DropLast(a.shape) # DropLast(b.shape) THEN Raised("RuntimeError")
        ELSE Tensor(Append(DropLast(a.shape), n),
                    [k \in 1..(m * n) |->
                        LET o == (k - 1) \div n
                            j == (k - 1) % n
                        IN  IF j < la THEN a.data[o * la + j + 1]
                            ELSE b.data[o * lb + (j - la) + 1]],
                    a.dtype)

\* Tensor.flatten(start_dim=0, end_dim=-3)
flatten(t) ==
    LET r == Len(t.shape)
    IN  Tensor(<<Prod(SubSeq(t.shape, 1, r - 2))>> \o SubSeq(t.shape, r - 1, r),
               t.data, t.dtype)

\* ---------------------------------------------------------- broadcasting
PadLeft(shape, r) == [i \in 1..r |->
    IF i <= r - Len(shape) THEN 1 ELSE shape[i - (r - Len(shape))]]

MaxOf(a, b) == IF a >= b THEN a ELSE b

Broadcastable(sa, sb) ==
    LET r == MaxOf(Len(sa), Len(sb))
        pa == PadLeft(sa, r)
        pb == PadLeft(sb, r)
    IN  \A i \in 1..r : pa[i] = pb[i] \/ pa[i] = 1 \/ pb[i] = 1

BroadcastShape(sa, sb) ==
    LET r == MaxOf(Len(sa), Len(sb))
        pa == PadLeft(sa, r)
        pb == PadLeft(sb, r)
    IN  [i \in 1..r |-> MaxOf(pa[i], pb[i])]

Strides(shape) == [i \in 1..Len(shape) |-> Stride(shape, i)]

\* per axis of the result, the step in an operand of shape `shape` that one
\* step along that axis makes: none along the axes the operand lacks or has
\* with size 1
BroadcastStrides(out, shape) ==
    LET off == Len(out) - Len(shape)
        st == Strides(shape)
    IN  [i \in 1..Len(out) |->
            IF i <= off THEN 0 ELSE IF shape[i - off] = 1 THEN 0 ELSE st[i - off]]

\* flat offset in the operand of the element that the result's 0-based flat
\* offset k reads
RECURSIVE BroadcastOffset(_, _, _, _, _)
BroadcastOffset(k, out, outstrides, steps, i) ==
    IF i > Len(out) THEN 0
    ELSE ((k \div outstrides[i]) % out[i]) * steps[i]
         + BroadcastOffset(k, out, outstrides, steps, i + 1)

\* ------------------------------------------------ fixed-point arithmetic
MulFP(a, b) == (a * b + SCALE \div 2) \div SCALE
AddFP(a, b) == a + b
SubFP(a, b) == a - b

\* the scalar operation of an element-wise operator
Scalar(op, a, b) ==
    IF op = "mul" THEN MulFP(a, b)
    ELSE IF op = "add" THEN AddFP(a, b)
    ELSE SubFP(a, b)

\* a binary element-wise operator on broadcast operands
Elementwise(op, a, b) ==
    IF a.raised # "none" THEN a
    ELSE IF b.raised # "none" THEN b
    ELSE IF ~Broadcastable(a.shape, b.shape) THEN Raised("RuntimeError")
    ELSE LET out == BroadcastShape(a.shape, b.shape)
             so == Strides(out)
             sa == BroadcastStrides(out, a.shape)
             sb == BroadcastStrides(out, b.shape)
         IN  Tensor(out,
                    [k \in 1..Prod(out) |->
                        Scalar(op,
                               a.data[1 + BroadcastOffset(k - 1, out, so, sa, 1)],
                               b.data[1 + BroadcastOffset(k - 1, out, so, sb, 1)])],
                    "float32")

Mul(a, b) == Elementwise("mul", a, b)
Add(a, b) == Elementwise("add", a, b)
Sub(a, b) == Elementwise("sub", a, b)

RECURSIVE IPow(_, _)
IPow(b, n) == IF n = 0 THEN 1 ELSE b * IPow(b, n - 1)

\* floor(q / base^p) by repeated floor division
RECURSIVE DivPow(_, _, _)
DivPow(q, base, p) == IF p = 0 THEN q ELSE DivPow(q \div base, base, p - 1)

\* base ** (-p / n) for base >= 1: the largest f with
\* (f / SCALE)^n * base^p <= 1
PowNeg(base, p, n) ==
    LET Fits(f) == IPow(f, n) <= DivPow(IPow(SCALE, n), base, p)
    IN  CHOOSE f \in 0..SCALE : Fits(f) /\ (f = SCALE \/ ~Fits(f + 1))

\* term - next + ... : the alternating series both functions share
RECURSIVE Series(_, _, _, _)
Series(a, term, k, n) ==
    IF n = 0 THEN 0
    ELSE term - Series(a, ((((term * a) \div SCALE) * a) \div SCALE) \div ((k + 1) * (k + 2)),
                       k + 2, n - 1)

CosFP(a) == Series(a, SCALE, 0, TrigTerms)
SinFP(a) == Series(a, a, 1, TrigTerms)

\* torch.cos and torch.sin, element by element
torch_cos(t) ==
    IF t.raised # "none" THEN t
    ELSE Tensor(t.shape, [k \in 1..Len(t.data) |-> CosFP(t.data[k])], t.dtype)

torch_sin(t) ==
    IF t.raised # "none" THEN t
    ELSE Tensor(t.shape, [k \in 1..Len(t.data) |-> SinFP(t.data[k])], t.dtype)

\* ------------------------------------------------------------ src/rope.py
\* reshape_for_broadcast without its second assertion
reshape_for_broadcast_unchecked(freqs_cis, x) ==
    LET ndim == Len(x.shape)
        shape == [i \in 1..ndim |->
                    IF i - 1 = 1 \/ i - 1 = ndim - 1 THEN x.shape[i] ELSE 1]
    IN  IF ~(0 <= 1 /\ 1 < ndim) THEN Raised("AssertionError")
        ELSE view(freqs_cis, shape)

\* lines 20-24
reshape_for_broadcast(freqs_cis, x) ==
    LET ndim == Len(x.shape)
        shape == [i \in 1..ndim |->
                    IF i - 1 = 1 \/ i - 1 = ndim - 1 THEN x.shape[i] ELSE 1]
    IN  IF ~(0 <= 1 /\ 1 < ndim) THEN Raised("AssertionError")
        ELSE IF freqs_cis.shape # <<x.shape[2], Last(x.shape)>>
             THEN Raised("AssertionError")
        ELSE view(freqs_cis, shape)

\* split_pairs taking the first and the second half of the features, as
\* reshape(t.shape[:-1] + (2, -1)).unbind(-2) would
split_halves(t) ==
    LET pairs == reshape(Float(t), DropLast(t.shape) \o <<-1, 2>>)
        D == pairs.shape[Len(pairs.shape) - 1]
        m == numel(pairs) \div 2
    IN  IF pairs.raised # "none" THEN <<pairs, pairs>>
        ELSE [j \in 1..2 |->
                Tensor(DropLast(pairs.shape),
                       [k \in 1..m |->
                           pairs.data[((k - 1) \div D) * 2 * D + (j - 1) * D
                                      + ((k - 1) % D) + 1]],
                       pairs.dtype)]

\* lines 59 and 60: t.float().reshape(t.shape[:-1] + (-1, 2)).unbind(-1)
split_pairs(t) ==
    LET pairs == reshape(Float(t), DropLast(t.shape) \o <<-1, 2>>)
    IN  IF pairs.raised # "none" THEN <<pairs, pairs>> ELSE unbind(pairs)

\* lines 71-83; every element of the tables is in fixed point
calculate_rotary_embedding_angles(seq_len, head_dim, theta) ==
    LET dim_range == arange(head_dim)
        theta_i == Tensor(<<head_dim>>,
                          [k \in 1..head_dim |->
                              PowNeg(theta, 2 * dim_range.data[k], head_dim)],
                          "float32")
        position == Float(arange(seq_len))
        angles == Mul(view(position, <<seq_len, 1>>), view(theta_i, <<1, head_dim>>))
        sin_values == torch_sin(angles)
        cos_values == torch_cos(angles)
    IN  [cos |-> cos_values, sin |-> sin_values]

\* interleave with the two components in the other order
interleave_swapped(real, imag, shape) ==
    view(flatten(cat(unsqueeze(imag), unsqueeze(real))), shape)

\* interleave with the real component in both places
interleave_dup(real, imag, shape) ==
    view(flatten(cat(unsqueeze(real), unsqueeze(real))), shape)

\* lines 96-97 and 100-101: cat, flatten, view
interleave(real, imag, shape) ==
    view(flatten(cat(unsqueeze(real), unsqueeze(imag))), shape)

\* lines 59-103, given the seqlen that line 51 unpacks
rotary(query, key, seqlen, theta) ==
    LET q == split_pairs(query)
        k == split_pairs(key)
        query_real == q[1]
        query_imag == q[2]
        key_real == k[1]
        key_imag == k[2]
        trig == calculate_rotary_embedding_angles(
                    seqlen, query_real.shape[Len(query_real.shape) - 1], theta)
        query_out_real == Sub(Mul(trig.cos, query_real), Mul(trig.sin, query_imag))
        query_out_imag == Add(Mul(trig.sin, query_real), Mul(trig.cos, query_imag))
        key_out_real == Sub(Mul(trig.cos, key_real), Mul(trig.sin, key_imag))
        key_out_imag == Add(Mul(trig.sin, key_real), Mul(trig.cos, key_imag))
        query_out == interleave(query_real, query_imag, query.shape)
        key_out == interleave(key_real, key_imag, key.shape)
        line == IF query_real.raised # "none" THEN 59
                ELSE IF key_real.raised # "none" THEN 60
                ELSE IF query_out_real.raised # "none" THEN 85
                ELSE IF key_out_real.raised # "none" THEN 87
                ELSE IF query_out.raised # "none" THEN 97
                ELSE IF key_out.raised # "none" THEN 101
                ELSE 103
        Local(t, l) == IF line >= l THEN t ELSE Unset
    IN  [raised |-> IF line = 103 THEN "none" ELSE "RuntimeError",
         line |-> line,
         query_real |-> Local(query_real, 60),
         query_imag |-> Local(query_imag, 60),
         key_real |-> Local(key_real, 85),
         key_imag |-> Local(key_imag, 85),
         cos |-> Local(trig.cos, 85),
         sin |-> Local(trig.sin, 85),
         query_out_real |-> Local(query_out_real, 87),
         query_out_imag |-> Local(query_out_imag, 87),
         key_out_real |-> Local(key_out_real, 97),
         key_out_imag |-> Local(key_out_imag, 97),
         query_out |-> Local(query_out, 103),
         key_out |-> Local(key_out, 103)]

\* apply_rotary_emb computing the angles for max_seq_len positions
apply_rotary_emb_max_seq_len(query, key, head_dim, max_seq_len, theta) ==
    rotary(query, key, max_seq_len, theta)

\* lines 26-103
apply_rotary_emb(query, key, head_dim, max_seq_len, theta) ==
    rotary(query, key, query.shape[2], theta)

NoCall == [raised |-> "unset", line |-> 0]

\* what the caller of apply_rotary_emb observes, and the number of positions
\* the angle tables were computed for
Outcome(f) ==
    [raised |-> f.raised, query_out |-> f.query_out, key_out |-> f.key_out,
     positions |-> IF f.cos.raised = "none" THEN f.cos.shape[1] ELSE 0]

\* the max_seq_len arguments tried for a query of sequence length S: smaller
\* than S, equal to it and larger
MaxSeqLens(S) == {1, S, MaxS + 1}

\* ------------------------------------------------------------------ state
VARIABLES
    query, key, head_dim, max_seq_len, theta,   \* arguments of the call
    pc,                                         \* "ready", "returned", "compared"
    frame,                                      \* locals and outcome of the call
    other_max_seq_len, other,                   \* the same call under another max_seq_len
    freqs_cis, x,                               \* arguments of reshape_for_broadcast
    rpc,                                        \* "ready", "returned"
    reshaped                                    \* its outcome

rotary_vars == <<query, key, head_dim, max_seq_len, theta, pc, frame,
                 other_max_seq_len, other>>
reshape_vars == <<freqs_cis, x, rpc, reshaped>>
vars == <<rotary_vars, reshape_vars>>

\* the two kinds of call: the dtype of query and key, the spacing of their
\* element values, and theta (the default, and a base whose powers the
\* fixed-point resolution tells apart)
Kinds == {[dtype |-> "float32", step |-> 1, theta |-> DefaultTheta],
          [dtype |-> "float64", step |-> -3, theta |-> 4]}

\* a tensor whose elements are distinct multiples of 1/2, shifted by base
Input(shape, kind, base) ==
    Tensor(shape,
           [k \in 1..Prod(shape) |-> kind.step * k * (SCALE \div 2) + base],
           kind.dtype)

OtherWidth(d) == (d % MaxHd) + 1

RotaryIdle ==
    /\ query = Unset /\ key = Unset /\ head_dim = 0 /\ max_seq_len = 0 /\ theta = 0
    /\ pc = "idle" /\ frame = NoCall /\ other_max_seq_len = 0 /\ other = NoCall

ReshapeIdle ==
    /\ freqs_cis = Unset /\ x = Unset /\ rpc = "idle" /\ reshaped = Unset

\* the calls checked: query and key of rank 4 (line 51 unpacks four axes)
\* with the same batch size and sequence length, trailing dimensions and a
\* head_dim argument that may differ from one another and may be odd
InitRotary ==
    /\ \E B \in 1..MaxB, S \in 1..MaxS, Hq \in 1..MaxH, Hk \in 1..MaxH,
          dq \in 1..MaxHd, kind \in Kinds :
          /\ query = Input(<<B, S, Hq, dq>>, kind, 0)
          /\ \E dk \in {dq, OtherWidth(dq)} :
                key = Input(<<B, S, Hk, dk>>, kind, 1000)
          /\ head_dim \in {dq, OtherWidth(dq)}
          /\ theta = kind.theta
    /\ max_seq_len \in MaxSeqLens(query.shape[2])
    /\ pc = "ready"
    /\ frame = NoCall
    /\ other_max_seq_len = 0
    /\ other = NoCall
    /\ ReshapeIdle

\* apply_rotary_emb(query, key, head_dim, max_seq_len, theta)
Call ==
    /\ pc = "ready"
    /\ frame' = apply_rotary_emb(query, key, head_dim, max_seq_len, theta)
    /\ pc' = "returned"
    /\ UNCHANGED <<query, key, head_dim, max_seq_len, theta, other_max_seq_len, other>>
    /\ UNCHANGED reshape_vars

\* the same call with nothing but max_seq_len changed; each pair of values
\* of max_seq_len is tried once, the smaller one first
CallOther ==
    /\ pc = "returned"
    /\ \E m \in {n \in MaxSeqLens(query.shape[2]) : n > max_seq_len} :
          /\ other_max_seq_len' = m
          /\ other' = Outcome(apply_rotary_emb(query, key, head_dim, m, theta))
    /\ pc' = "compared"
    /\ UNCHANGED <<query, key, head_dim, max_seq_len, theta, frame>>
    /\ UNCHANGED reshape_vars

NextRotary == Call \/ CallOther

SpecRotary == InitRotary /\ [][NextRotary]_vars

Shapes(minrank, maxrank) ==
    UNION {[1..r -> 1..MaxDim] : r \in minrank..maxrank}

InitReshape ==
    /\ \E sx \in Shapes(0, MaxRank) : x = Input(sx, CHOOSE kd \in Kinds : kd.step = 1, 0)
    /\ \E sf \in Shapes(1, MaxFreqRank) :
          freqs_cis = Input(sf, CHOOSE kd \in Kinds : kd.step = 1, 0)
    /\ rpc = "ready"
    /\ reshaped = Unset
    /\ RotaryIdle

\* reshape_for_broadcast(freqs_cis, x)
CallReshape ==
    /\ rpc = "ready"
    /\ reshaped' = reshape_for_broadcast(freqs_cis, x)
    /\ rpc' = "returned"
    /\ UNCHANGED <<freqs_cis, x>>
    /\ UNCHANGED rotary_vars

NextReshape == CallReshape

SpecReshape == InitReshape /\ [][NextReshape]_vars

\* ----------------------------------------------------------------- claims
Called == pc \in {"returned", "compared"}
Returned == Called /\ frame.raised = "none"

\* the caller's obligations of spec section 4.2: head_dim is even and is the
\* trailing dimension of both tensors
WellFormed ==
    /\ head_dim % 2 = 0
    /\ query.shape[4] = head_dim
    /\ key.shape[4] = head_dim

\* the (batch, position, head) indices of a rank-4 tensor, 0-based
Cells(t) ==
    (0..(t.shape[1] - 1)) \X (0..(t.shape[2] - 1)) \X (0..(t.shape[3] - 1))

PairsOf(t) == 0..((t.shape[4] \div 2) - 1)

\* the angle of position pos and pair d that the specification states
SpecAngle(pos, d) == pos * PowNeg(theta, 2 * d, head_dim)

RotatedPairs(in, out) ==
    \A c \in Cells(in) : \A i \in PairsOf(in) :
        LET re == At(in, <<c[1], c[2], c[3], 2 * i>>)
            im == At(in, <<c[1], c[2], c[3], 2 * i + 1>>)
            co == CosFP(SpecAngle(c[2], i))
            si == SinFP(SpecAngle(c[2], i))
        IN  /\ At(out, <<c[1], c[2], c[3], 2 * i>>) = SubFP(MulFP(co, re), MulFP(si, im))
            /\ At(out, <<c[1], c[2], c[3], 2 * i + 1>>) = AddFP(MulFP(si, re), MulFP(co, im))

\* C1: whenever a well-formed call returns, every output pair of query and
\* key is the input pair rotated by the angle of its position and pair index:
\* out[2i] = cos*in[2i] - sin*in[2i+1], out[2i+1] = sin*in[2i] + cos*in[2i+1].
C1_ReturnsRotatedPairs ==
    (Returned /\ WellFormed) =>
        /\ RotatedPairs(query, frame.query_out)
        /\ RotatedPairs(key, frame.key_out)

\* C2: every well-formed call (any B, S, Hq, Hk >= 1, even head_dim >= 2)
\* returns without raising, and the returned query and key have the shapes of
\* the query and the key passed.
C2_NeverRaises ==
    (Called /\ WellFormed) =>
        /\ frame.raised = "none"
        /\ frame.query_out.shape = query.shape
        /\ frame.key_out.shape = key.shape

PositionZeroKept(in, out) ==
    \A c \in Cells(in) : \A j \in 0..(in.shape[4] - 1) :
        c[2] = 0 => At(out, <<c[1], c[2], c[3], j>>) = At(in, <<c[1], c[2], c[3], j>>)

\* C3: whenever the call returns, every output element at sequence index 0
\* equals the input element at the same index, for query and key; with
\* sequence length 1 the returned tensors are the inputs element for element.
\* A well-formed call with head_dim = 2 and sequence length 1 does return.
C3_PositionZeroIdentity ==
    /\ Returned =>
          /\ PositionZeroKept(query, frame.query_out)
          /\ PositionZeroKept(key, frame.key_out)
          /\ query.shape[2] = 1 =>
                /\ frame.query_out.shape = query.shape
                /\ frame.query_out.data = query.data
                /\ frame.key_out.shape = key.shape
                /\ frame.key_out.data = key.data
    /\ (Called /\ WellFormed /\ head_dim = 2 /\ query.shape[2] = 1) => Returned

C3_Witness ==
    /\ pc = "returned" /\ frame.raised = "none"
    /\ head_dim = 2 /\ max_seq_len = 1
    /\ query.shape = <<2, 1, 3, 2>>
    /\ key.shape = <<2, 1, 1, 2>>

PairNormKept(in, out) ==
    \A c \in Cells(in) : \A i \in PairsOf(in) :
        LET re == At(in, <<c[1], c[2], c[3], 2 * i>>)
            im == At(in, <<c[1], c[2], c[3], 2 * i + 1>>)
            ore == At(out, <<c[1], c[2], c[3], 2 * i>>)
            oim == At(out, <<c[1], c[2], c[3], 2 * i + 1>>)
        IN  ore * ore + oim * oim = re * re + im * im

\* C4: whenever the call returns, each output pair of query and key has the
\* squared norm of the input pair at the same (batch, position, head, pair).
C4_PairNormPreserved ==
    Returned =>
        /\ PairNormKept(query, frame.query_out)
        /\ PairNormKept(key, frame.key_out)

C4_Witness ==
    /\ pc = "returned" /\ frame.raised = "none" /\ WellFormed
    /\ query.shape = <<1, 2, 2, 4>>
    /\ key.shape = <<1, 2, 1, 4>>

RankOfX == Len(x.shape)

\* the second precondition of reshape_for_broadcast, for a target of rank >= 2
FreqsMatch == freqs_cis.shape = <<x.shape[2], Last(x.shape)>>

\* C5: for every x of rank >= 2 and every frequency tensor of shape
\* (x.shape[1], x.shape[-1]), reshape_for_broadcast returns the frequency
\* tensor with x's rank, x.shape[1] on axis 1, x.shape[-1] on the last axis,
\* 1 on every other axis, and as many elements as the frequency tensor.
C5_ReshapeSucceeds ==
    (rpc = "returned" /\ RankOfX >= 2 /\ FreqsMatch) =>
        /\ reshaped.raised = "none"
        /\ Len(reshaped.shape) = RankOfX
        /\ \A i \in 1..RankOfX :
              reshaped.shape[i] = IF i = 2 \/ i = RankOfX THEN x.shape[i] ELSE 1
        /\ numel(reshaped) = numel(freqs_cis)
        /\ reshaped.data = freqs_cis.data

\* C6: reshape_for_broadcast ends in an assertion failure, returning no
\* tensor, exactly when x has fewer than 2 dimensions or the frequency
\* tensor's shape is not (x.shape[1], x.shape[-1]).
C6_AssertionIffPreconditionFails ==
    rpc = "returned" =>
        (reshaped.raised = "AssertionError"
            <=> ~(RankOfX >= 2 /\ FreqsMatch))

C6_Witness ==
    /\ rpc = "returned"
    /\ x.shape = <<2, 1, 2>>
    /\ freqs_cis.shape = <<2, 2>>
    /\ reshaped.raised = "AssertionError"

\* C7: a call whose query or key has an odd trailing dimension raises a
\* shape error in the pair-splitting step (lines 59-60), whatever head_dim is
\* passed; and a call with an odd head_dim argument does not return normally.
C7_OddWidthRaises ==
    Called =>
        /\ (query.shape[4] % 2 = 1 \/ key.shape[4] % 2 = 1) =>
              /\ frame.raised = "RuntimeError"
              /\ frame.line \in {59, 60}
        /\ head_dim % 2 = 1 => frame.raised # "none"

\* C8: two calls that differ only in max_seq_len have the same outcome (the
\* same returned tensors or the same error), and the angle tables are
\* computed for as many positions as the query's sequence length.
C8_MaxSeqLenIgnored ==
    /\ pc = "compared" => other = Outcome(frame)
    /\ (Called /\ frame.line >= 85) => Outcome(frame).positions = query.shape[2]

C8_Witness ==
    /\ pc = "compared" /\ frame.raised = "none"
    /\ query.shape[2] = 2
    /\ max_seq_len = 1
    /\ other_max_seq_len = 3
    /\ other.raised = "none"

SpecTableShape == <<query.shape[2], head_dim \div 2>>

SpecTableCells == (0..(query.shape[2] - 1)) \X (0..((head_dim \div 2) - 1))

\* C9: in a well-formed call the cos and sin tables have shape
\* (S, head_dim / 2) and their entry at (pos, d) is the cosine and the sine of
\* pos * theta^(-2d / head_dim).
C9_AngleTables ==
    (Called /\ frame.line >= 85 /\ WellFormed) =>
        /\ frame.cos.shape = SpecTableShape
        /\ frame.sin.shape = SpecTableShape
        /\ \A c \in SpecTableCells :
              /\ At(frame.cos, c) = CosFP(SpecAngle(c[1], c[2]))
              /\ At(frame.sin, c) = SinFP(SpecAngle(c[1], c[2]))

SplitConsistent(in, real, imag) ==
    /\ real.shape = <<in.shape[1], in.shape[2], in.shape[3], in.shape[4] \div 2>>
    /\ imag.shape = real.shape
    /\ \A c \in Cells(in) : \A i \in PairsOf(in) :
          /\ At(real, <<c[1], c[2], c[3], i>>) = At(in, <<c[1], c[2], c[3], 2 * i>>)
          /\ At(imag, <<c[1], c[2], c[3], i>>) = At(in, <<c[1], c[2], c[3], 2 * i + 1>>)

MergeConsistent(real, imag, in, out) ==
    /\ out.shape = in.shape
    /\ \A c \in Cells(in) : \A i \in PairsOf(in) :
          /\ At(out, <<c[1], c[2], c[3], 2 * i>>) = At(real, <<c[1], c[2], c[3], i>>)
          /\ At(out, <<c[1], c[2], c[3], 2 * i + 1>>) = At(imag, <<c[1], c[2], c[3], i>>)

\* C10: the split sends features 2i and 2i+1 of input[b,s,h] to real[b,s,h,i]
\* and imag[b,s,h,i], and the recombination puts real[b,s,h,i] and
\* imag[b,s,h,i] at features 2i and 2i+1 of output[b,s,h], in a tensor of the
\* input's shape, for query and key.
C10_SplitMergeIndexConsistent ==
    /\ (Called /\ frame.line >= 60) =>
          SplitConsistent(query, frame.query_real, frame.query_imag)
    /\ (Called /\ frame.line >= 85) =>
          SplitConsistent(key, frame.key_real, frame.key_imag)
    /\ Returned =>
          /\ MergeConsistent(frame.query_real, frame.query_imag, query, frame.query_out)
          /\ MergeConsistent(frame.key_real, frame.key_imag, key, frame.key_out)

C10_Witness ==
    /\ pc = "returned" /\ frame.raised = "none"
    /\ query.shape = <<2, 2, 2, 4>>
    /\ key.shape = <<2, 2, 1, 4>>

====
